---- MODULE Spec2Model ----
(***************************************************************************)
(* prom_wrapper_pg, main.go: a batch loop (mRun) that updates Prometheus   *)
(* instruments and pushes the registry to a Pushgateway with pusher.Add(). *)
(* One action per statement of mRun, so that the clock can advance between *)
(* any two statements.                                                     *)
(***************************************************************************)
EXTENDS Integers, Sequences, FiniteSets, TLC

\* ---------------------------------------------------------------- bounds
\* Largest iteration count explored.  main.go:131 sets todo_count to 40; the
\* loop is explored for every count 0..MaxTodo.
MaxTodo == 3
\* The clock is read in ticks 1..MaxClock.
MaxClock == 3

\* ------------------------------------------------------ program constants
\* performBackup's returned record count (main.go:126).
BackupRecords == 42
\* The value mRun stores in txn_count (main.go:142).
TxnCount == 345234523

Label == "eft"

\* The nine instruments NewMetrics declares (main.go:55-107).
PlainGauges ==
    {"fs_etl_complete_timestamp_seconds", "fs_etl_success_timestamp_seconds",
     "fs_etl_duration_seconds", "fs_etl_records_processed"}

LabeledInstruments ==
    {"txn_count", "fs_sql_duration_seconds", "fs_api_duration_seconds",
     "fs_etl_operations_seconds", "fs_etl_operations_total"}

Declared == PlainGauges \cup LabeledInstruments

\* reg.MustRegister(m.info, m.sql_duration, m.api_duration, m.rec_duration,
\* m.req_processed) (main.go:110): the only registration in the program; the
\* pusher.Collector(m.successTime) call of main.go:166 is commented out.
Registered == LabeledInstruments

\* Outcome of one pusher.Add() call: nil or a transport error.
PushOutcomes == {"ok", "fail"}

\* performBackup returns (42, nil) on its only return path (main.go:126).
PerformBackupResults == {<<BackupRecords, "nil">>}

VARIABLES
    pc,             \* position of mRun
    todo_count,     \* main.go:131
    count,          \* loop variable, main.go:144
    now,            \* the clock
    sqlstart,       \* main.go:134
    start,          \* main.go:147
    n,              \* result of performBackup, main.go:148
    err,            \* error of performBackup, main.go:148
    completionTime, \* m.completionTime
    successTime,    \* m.successTime
    duration,       \* m.duration
    records,        \* m.records
    info,           \* m.info          (vector: label -> value)
    sql_duration,   \* m.sql_duration  (vector: label -> histogram)
    api_duration,   \* m.api_duration
    rec_duration,   \* m.rec_duration
    req_processed,  \* m.req_processed (vector: label -> counter)
    collector,      \* the Pushgateway's group "pushgateway": family -> value
    pushLog,        \* outcomes of the pusher.Add() calls so far
    stageCalls,     \* number of performBackup invocations so far
    stdout,         \* number of lines printed, per kind of line
    lastAttempt     \* the instruments' values at the last pusher.Add() call

vars == <<pc, todo_count, count, now, sqlstart, start, n, err, completionTime,
          successTime, duration, records, info, sql_duration, api_duration,
          rec_duration, req_processed, collector, pushLog, stageCalls, stdout,
          lastAttempt>>

metricVars == <<completionTime, successTime, duration, records, info,
                sql_duration, api_duration, rec_duration, req_processed>>

localVars == <<sqlstart, start, n, err>>

pushVars == <<collector, pushLog, lastAttempt>>

\* ------------------------------------------------------------- instruments
\* A vector without children: NewGaugeVec/NewHistogramVec/NewCounterVec.
NewVec == [l \in {} |-> 0]

NewHistogram == [count |-> 0, sum |-> 0]

\* vec.WithLabelValues(l): the child for l, created with `zero` when missing.
WithLabelValues(vec, l, zero) ==
    IF l \in DOMAIN vec THEN vec
    ELSE [k \in DOMAIN vec \cup {l} |-> IF k = l THEN zero ELSE vec[k]]

\* vec.WithLabelValues(l).Set(v)
SetChild(vec, l, v) ==
    [WithLabelValues(vec, l, 0) EXCEPT ![l] = v]

\* vec.WithLabelValues(l).Inc()
IncChild(vec, l) ==
    [WithLabelValues(vec, l, 0) EXCEPT ![l] = @ + 1]

\* An Observe that overwrites the histogram with the one observation.
ObserveChildLatest(vec, l, v) ==
    [WithLabelValues(vec, l, NewHistogram) EXCEPT
        ![l] = [count |-> 1, sum |-> v]]

\* vec.WithLabelValues(l).Observe(v)
ObserveChild(vec, l, v) ==
    [WithLabelValues(vec, l, NewHistogram) EXCEPT
        ![l] = [count |-> @.count + 1, sum |-> @.sum + v]]

\* time.Since(t)
Since(t) == now - t

\* ------------------------------------------------------------------ pusher
\* The values of all nine instruments.
Metrics ==
    [complete |-> completionTime, success |-> successTime, duration |-> duration,
     records |-> records, info |-> info, sql |-> sql_duration,
     api |-> api_duration, rec |-> rec_duration, total |-> req_processed]

\* The family each labeled instrument is declared under (main.go:77-107).
Family ==
    [txn_count |-> info, fs_sql_duration_seconds |-> sql_duration,
     fs_api_duration_seconds |-> api_duration,
     fs_etl_operations_seconds |-> rec_duration,
     fs_etl_operations_total |-> req_processed]

\* reg.Gather(): the registered families that have at least one child.
Gather ==
    LET present == {f \in Registered : DOMAIN Family[f] # {}}
    IN  [f \in present |-> Family[f]]

\* pusher.Push() semantics (HTTP PUT): the group is replaced by the snapshot.
PushReplace(view, snapshot, outcome) ==
    IF outcome = "ok" THEN snapshot ELSE view

\* pusher.Add() (HTTP POST): on success the families of the snapshot replace
\* the group's families of the same name and the others stay; on an error
\* the group is left as it was.
PushAdd(view, snapshot, outcome) ==
    IF outcome = "ok"
    THEN [f \in DOMAIN view \cup DOMAIN snapshot |->
            IF f \in DOMAIN snapshot THEN snapshot[f] ELSE view[f]]
    ELSE view

\* if err := pusher.Add(); err != nil { fmt.Println("Could not push ...") }:
\* the number of lines the statement prints.
PushDiag(outcome) == IF outcome = "fail" THEN 1 ELSE 0

\* A push error that leaves mRun (return) instead of going on.
AfterPushAbort(outcome, next) == IF outcome = "fail" THEN "done" ELSE next

\* Where mRun goes after a push attempt: on, whatever the outcome.
AfterPush(outcome, next) == next

\* What the group "pushgateway" may hold when the process starts: nothing, or
\* what an earlier run of the program left there.
PriorViews ==
    {NewVec,
     [f \in LabeledInstruments |->
        IF f = "txn_count" THEN [l \in {Label} |-> TxnCount]
        ELSE IF f = "fs_etl_operations_total" THEN [l \in {Label} |-> 1]
        ELSE [l \in {Label} |-> [count |-> 1, sum |-> 0]]]}

Lines == {"sql_sleep", "api_sleep", "req_sleep", "push_failed", "backup_failed"}

\* fmt.Printf / fmt.Println of one line of the given kind.
Printed(kind) == [stdout EXCEPT ![kind] = @ + 1]

\* ------------------------------------------------------------------- Init
\* The state after the package-level var block (main.go:41-48) has run and
\* mRun has been entered (main.go:131).
Init ==
    /\ pc = "sqlstart"
    /\ todo_count \in 0..MaxTodo
    /\ count = 0
    /\ now = 1
    /\ sqlstart = 0
    /\ start = 0
    /\ n = 0
    /\ err = "nil"
    /\ completionTime = 0
    /\ successTime = 0
    /\ duration = 0
    /\ records = 0
    /\ info = NewVec
    /\ sql_duration = NewVec
    /\ api_duration = NewVec
    /\ rec_duration = NewVec
    /\ req_processed = NewVec
    /\ collector \in PriorViews
    /\ pushLog = <<>>
    /\ stageCalls = 0
    /\ stdout = [k \in Lines |-> 0]
    /\ lastAttempt = <<>>

\* --------------------------------------------------------------- the clock
\* Time passes between two statements.
Tick ==
    /\ pc # "done"
    /\ now < MaxClock
    /\ now' = now + 1
    /\ UNCHANGED <<pc, todo_count, count, localVars, metricVars, pushVars,
                   stageCalls, stdout>>

\* time.Sleep: the clock advances by the drawn amount.
Sleeps == 0..(MaxClock - now)

\* ------------------------------------------------------ mRun, before the loop
\* sqlstart := time.Now()
SqlStart ==
    /\ pc = "sqlstart"
    /\ sqlstart' = now
    /\ pc' = "sqlsleep"
    /\ UNCHANGED <<todo_count, count, now, start, n, err, metricVars, pushVars,
                   stageCalls, stdout>>

\* rand.Seed; n := rand.Intn(10000); fmt.Printf; time.Sleep
SqlSleep ==
    /\ pc = "sqlsleep"
    /\ \E d \in Sleeps : now' = now + d
    /\ stdout' = Printed("sql_sleep")
    /\ pc' = "sqlobserve"
    /\ UNCHANGED <<todo_count, count, localVars, metricVars, pushVars,
                   stageCalls>>

\* m.sql_duration.WithLabelValues("eft").Observe(time.Since(sqlstart).Seconds())
SqlObserve ==
    /\ pc = "sqlobserve"
    /\ sql_duration' = ObserveChild(sql_duration, Label, Since(sqlstart))
    /\ pc' = "info"
    /\ UNCHANGED <<todo_count, count, now, localVars, completionTime,
                   successTime, duration, records, info, api_duration,
                   rec_duration, req_processed, pushVars, stageCalls, stdout>>

\* m.info.WithLabelValues("eft").Set(345234523)
InfoSet ==
    /\ pc = "info"
    /\ info' = SetChild(info, Label, TxnCount)
    /\ pc' = "loop"
    /\ UNCHANGED <<todo_count, count, now, localVars, completionTime,
                   successTime, duration, records, sql_duration, api_duration,
                   rec_duration, req_processed, pushVars, stageCalls, stdout>>

\* ------------------------------------------------------------- the loop
\* for ...; count < todo_count; ... : the body is entered, or mRun returns.
LoopTest ==
    /\ pc = "loop"
    /\ pc' = IF count < todo_count THEN "start" ELSE "done"
    /\ UNCHANGED <<todo_count, count, now, localVars, metricVars, pushVars,
                   stageCalls, stdout>>

\* start := time.Now()
Start ==
    /\ pc = "start"
    /\ start' = now
    /\ pc' = "backup"
    /\ UNCHANGED <<todo_count, count, now, sqlstart, n, err, metricVars,
                   pushVars, stageCalls, stdout>>

\* n, err := performBackup(): seeds, draws the delay, prints it, sleeps and
\* returns (42, nil).
PerformBackup ==
    /\ pc = "backup"
    /\ \E d \in Sleeps : now' = now + d
    /\ stdout' = Printed("api_sleep")
    /\ \E r \in PerformBackupResults : n' = r[1] /\ err' = r[2]
    /\ stageCalls' = stageCalls + 1
    /\ pc' = "records"
    /\ UNCHANGED <<todo_count, count, sqlstart, start, metricVars, pushVars>>

\* m.records.Set(float64(n))
RecordsSet ==
    /\ pc = "records"
    /\ records' = n
    /\ pc' = "apiobserve"
    /\ UNCHANGED <<todo_count, count, now, localVars, completionTime,
                   successTime, duration, info, sql_duration, api_duration,
                   rec_duration, req_processed, pushVars, stageCalls, stdout>>

\* m.api_duration.WithLabelValues("eft").Observe(time.Since(start).Seconds())
ApiObserve ==
    /\ pc = "apiobserve"
    /\ api_duration' = ObserveChild(api_duration, Label, Since(start))
    /\ pc' = "duration"
    /\ UNCHANGED <<todo_count, count, now, localVars, completionTime,
                   successTime, duration, records, info, sql_duration,
                   rec_duration, req_processed, pushVars, stageCalls, stdout>>

\* m.duration.Set(time.Since(start).Seconds())
DurationSet ==
    /\ pc = "duration"
    /\ duration' = Since(start)
    /\ pc' = "completion"
    /\ UNCHANGED <<todo_count, count, now, localVars, completionTime,
                   successTime, records, info, sql_duration, api_duration,
                   rec_duration, req_processed, pushVars, stageCalls, stdout>>

\* m.completionTime.SetToCurrentTime()
CompletionSet ==
    /\ pc = "completion"
    /\ completionTime' = now
    /\ pc' = "iferr"
    /\ UNCHANGED <<todo_count, count, now, localVars, successTime, duration,
                   records, info, sql_duration, api_duration, rec_duration,
                   req_processed, pushVars, stageCalls, stdout>>

\* The branch on err with its arms exchanged: the success time is set when
\* the stage failed.
SuccessSetInverted(e) == e # "nil"

\* The branch without its else arm: the success time is never set.
SuccessSetNever(e) == FALSE

\* if err != nil { ... } else { m.successTime.SetToCurrentTime() }: whether
\* the success time is set for the stage's error e.
SuccessSet(e) == e = "nil"

\* if err != nil { fmt.Println("DB backup failed:", err) }
\* else { m.successTime.SetToCurrentTime() }
IfErr ==
    /\ pc = "iferr"
    /\ successTime' = IF SuccessSet(err) THEN now ELSE successTime
    /\ stdout' = IF err # "nil" THEN Printed("backup_failed") ELSE stdout
    /\ pc' = "push1"
    /\ UNCHANGED <<todo_count, count, now, localVars, completionTime, duration,
                   records, info, sql_duration, api_duration, rec_duration,
                   req_processed, pushVars, stageCalls>>

\* if err := pusher.Add(); err != nil { fmt.Println("Could not push ...") }
\* at position `at`, going on to `next`.
PushAttempt(at, next) ==
    /\ pc = at
    /\ \E outcome \in PushOutcomes :
        /\ collector' = PushAdd(collector, Gather, outcome)
        /\ pushLog' = Append(pushLog, [outcome |-> outcome, at |-> at])
        /\ stdout' = [stdout EXCEPT !["push_failed"] = @ + PushDiag(outcome)]
        /\ pc' = AfterPush(outcome, next)
    /\ lastAttempt' = <<Metrics>>
    /\ UNCHANGED <<todo_count, count, now, localVars, metricVars, stageCalls>>

\* The push after the stage (main.go:173-175).
Push1 == PushAttempt("push1", "reqsleep")

\* rand.Seed; n = rand.Intn(2000); fmt.Printf; time.Sleep
ReqSleep ==
    /\ pc = "reqsleep"
    /\ \E d \in Sleeps : now' = now + d /\ n' = d
    /\ stdout' = Printed("req_sleep")
    /\ pc' = "inc"
    /\ UNCHANGED <<todo_count, count, sqlstart, start, err, metricVars,
                   pushVars, stageCalls>>

\* A counter whose increment is lost on every second call.
IncLossy(vec, l) ==
    IF l \in DOMAIN vec /\ vec[l] = 1 THEN vec ELSE IncChild(vec, l)

\* Set(1) written for Inc(): the counter stays at one.
IncAsSet(vec, l) == SetChild(vec, l, 1)

\* m.req_processed.WithLabelValues("eft").Inc(): the vector after the call.
ReqProcessedInc(vec, l) == IncChild(vec, l)

\* m.req_processed.WithLabelValues("eft").Inc()
Inc ==
    /\ pc = "inc"
    /\ req_processed' = ReqProcessedInc(req_processed, Label)
    /\ pc' = "recobserve"
    /\ UNCHANGED <<todo_count, count, now, localVars, completionTime,
                   successTime, duration, records, info, sql_duration,
                   api_duration, rec_duration, pushVars, stageCalls, stdout>>

\* The whole-operation observation left out: the statement only passes.
RecObserveSkipped ==
    /\ pc = "recobserve"
    /\ pc' = "push2"
    /\ UNCHANGED <<todo_count, count, now, localVars, metricVars, pushVars,
                   stageCalls, stdout>>

\* m.rec_duration.WithLabelValues("eft").Observe(time.Since(start).Seconds())
RecObserve ==
    /\ pc = "recobserve"
    /\ rec_duration' = ObserveChild(rec_duration, Label, Since(start))
    /\ pc' = "push2"
    /\ UNCHANGED <<todo_count, count, now, localVars, completionTime,
                   successTime, duration, records, info, sql_duration,
                   api_duration, req_processed, pushVars, stageCalls, stdout>>

\* The push at the end of the loop body (main.go:186-189).
Push2 == PushAttempt("push2", "post")

\* count++
LoopPost ==
    /\ pc = "post"
    /\ count' = count + 1
    /\ pc' = "loop"
    /\ UNCHANGED <<todo_count, now, localVars, metricVars, pushVars,
                   stageCalls, stdout>>

\* The statements of the loop body (main.go:147-189) and its post statement.
LoopBody ==
    {"start", "backup", "records", "apiobserve", "duration", "completion",
     "iferr", "push1", "reqsleep", "inc", "recobserve", "push2", "post"}

\* One statement of mRun.
Run ==
    \/ SqlStart
    \/ SqlSleep
    \/ SqlObserve
    \/ InfoSet
    \/ LoopTest
    \/ Start
    \/ PerformBackup
    \/ RecordsSet
    \/ ApiObserve
    \/ DurationSet
    \/ CompletionSet
    \/ IfErr
    \/ Push1
    \/ ReqSleep
    \/ Inc
    \/ RecObserve
    \/ Push2
    \/ LoopPost

Next == Run \/ Tick

Spec == Init /\ [][Next]_vars

\* The process is scheduled until mRun returns: sleeps are finite and
\* pusher.Add() returns.
FairSpec == Spec /\ WF_vars(Run)

TypeOK ==
    /\ pc \in LoopBody \cup {"sqlstart", "sqlsleep", "sqlobserve", "info",
                             "loop", "done"}
    /\ todo_count \in 0..MaxTodo
    /\ count \in 0..todo_count
    /\ now \in 1..MaxClock

\* ================================================================ properties
\* The value of fs_etl_operations_total{batch="eft"}: 0 while the child does
\* not exist.
Processed == IF Label \in DOMAIN req_processed THEN req_processed[Label] ELSE 0

\* The number of failed push attempts so far.
Failures == Cardinality({i \in 1..Len(pushLog) : pushLog[i].outcome = "fail"})

\* Every push attempt so far failed.
AllFailed == \A i \in 1..Len(pushLog) : pushLog[i].outcome = "fail"

\* A step that is a push attempt, and one that is a failed push attempt.
PushStep == Len(pushLog') = Len(pushLog) + 1

FailedPushStep == PushStep /\ pushLog'[Len(pushLog')].outcome = "fail"

\* C1: a complete run invokes performBackup exactly todo_count times and
\* issues exactly todo_count + 1 push attempts.
C1_PushesAreNPlusOne ==
    pc = "done" => stageCalls = todo_count /\ Len(pushLog) = todo_count + 1

\* What mRun does: both push attempts are statements of the loop body, so a
\* complete run issues 2 * todo_count of them and none after the loop.
PushesAreTwiceN ==
    pc = "done" =>
        /\ Len(pushLog) = 2 * todo_count
        /\ \A i \in 1..Len(pushLog) : pushLog[i].at \in LoopBody
        /\ stdout["push_failed"] = Failures

\* C2: when mRun returns, at least one push attempt was made, the last one
\* was made after the loop had exited, and no instrument changed after it.
C2_FinalPushAfterLoop ==
    pc = "done" =>
        /\ Len(pushLog) >= 1
        /\ pushLog[Len(pushLog)].at \notin LoopBody
        /\ lastAttempt = <<Metrics>>

\* C3: the processed counter is zero at process start and equals todo_count
\* when mRun returns, whatever the push outcomes were.
C3_ProcessedEqualsN ==
    /\ pc = "sqlstart" => Processed = 0
    /\ pc = "done" => Processed = todo_count

C3_Witness ==
    /\ pc = "done"
    /\ todo_count >= 2
    /\ Processed = todo_count
    /\ Failures >= 1
    /\ Failures < Len(pushLog)

\* C4: a push attempt, failed or not, is followed by the next statement of
\* the loop body, and every run reaches the return of mRun having invoked
\* the stage todo_count times.
C4_PushFailureNeverAborts ==
    /\ [][PushStep => pc' \in LoopBody]_vars
    /\ <>(pc = "done" /\ count = todo_count /\ stageCalls = todo_count)

C4_Witness ==
    /\ pc = "done"
    /\ todo_count >= 2
    /\ stageCalls = todo_count
    /\ Len(pushLog) >= 1
    /\ AllFailed

\* C5: the push-failure line is printed once per failed attempt and never
\* for a successful one, and a run whose every push fails prints it
\* todo_count + 1 times.
C5_DiagnosticsAreNPlusOne ==
    /\ stdout["push_failed"] = Failures
    /\ (pc = "done" /\ AllFailed) => stdout["push_failed"] = todo_count + 1

C7_AllDeclaredRegistered ==
    /\ Declared \subseteq Registered
    /\ pc \in {"push1", "push2"} => DOMAIN Gather = Declared

\* C8: the statement after the stage sets the success time to the current
\* time when the stage returned no error and leaves it alone otherwise, it
\* leaves the completion time (set just before) alone, and no other
\* statement changes the success time.
C8_SuccessTimeIffSuccess ==
    [][/\ (pc = "iferr" /\ pc' # pc) =>
            /\ err = "nil" => successTime' = now
            /\ err # "nil" => successTime' = successTime
            /\ completionTime' = completionTime /\ completionTime >= start
       /\ successTime' # successTime => pc = "iferr" /\ err = "nil"]_vars

C8_Witness ==
    /\ pc = "push1"
    /\ count >= 1
    /\ err = "nil"
    /\ successTime = now
    /\ successTime > start

\* C9 as stated: after a non-zero number of completed iterations the success
\* time equals the completion time.
C9_SuccessEqualsCompletion ==
    (count >= 1 /\ pc \in {"loop", "done"}) => successTime = completionTime

\* C9 amended: after a non-zero number of completed iterations both gauges
\* hold clock readings of the last iteration, the success time's taken at
\* or after the completion time's.
C9_SuccessNotBeforeCompletion ==
    (count >= 1 /\ pc \in {"loop", "done"}) =>
        /\ start <= completionTime
        /\ completionTime <= successTime
        /\ successTime <= now

C9_Witness ==
    /\ count >= 1
    /\ pc = "loop"
    /\ successTime > completionTime

\* C10: no step decreases the processed counter; a step changes it only by
\* adding one, the Inc statement always does, and between iterations it
\* equals the number of completed iterations.
C10_ProcessedMonotonic ==
    /\ [][/\ Processed' \in {Processed, Processed + 1}
          /\ Processed' = Processed + 1 <=> (pc = "inc" /\ pc' # pc)]_vars
    /\ [](pc \in {"loop", "done"} => Processed = count)

C10_Witness ==
    /\ pc = "recobserve"
    /\ count = 1
    /\ Processed = 2
    /\ Failures = Len(pushLog)

\* The number of observations of a histogram vector's "eft" child: 0 while
\* the child does not exist.
Observations(vec) == IF Label \in DOMAIN vec THEN vec[Label].count ELSE 0

\* C11: when mRun returns, the SQL histogram holds exactly one observation,
\* the API and the whole-operation histograms hold todo_count observations
\* each, and after at least one iteration the records gauge holds the count
\* the last performBackup call returned.
C11_ObservationsOncePerStage ==
    pc = "done" =>
        /\ Observations(sql_duration) = 1
        /\ Observations(api_duration) = todo_count
        /\ Observations(rec_duration) = todo_count
        /\ todo_count >= 1 =>
              \E r \in PerformBackupResults : r[1] = records /\ r[2] = err

C11_Witness ==
    /\ pc = "done"
    /\ todo_count = 3
    /\ Observations(sql_duration) = 1
    /\ Observations(api_duration) = 3
    /\ Observations(rec_duration) = 3
    /\ records = BackupRecords
    /\ n # records

\* C12: in every state the processed counter lags the number of stage
\* invocations by at most one; at every push attempt the whole-operation
\* histogram holds as many observations as the counter counts, which is
\* k - 1 at the push after the stage of iteration k = count + 1 and k at
\* the push at the end of that iteration; a snapshot that carries the
\* counter carries that value.
C12_CounterLagsStage ==
    /\ Processed <= stageCalls
    /\ stageCalls <= Processed + 1
    /\ pc \in {"push1", "push2"} =>
          /\ Observations(rec_duration) = Processed
          /\ "fs_etl_operations_total" \in DOMAIN Gather =>
                Gather["fs_etl_operations_total"][Label] = Processed
    /\ pc = "push1" => Processed = count /\ stageCalls = count + 1
    /\ pc = "push2" => Processed = count + 1 /\ stageCalls = count + 1

C12_Witness ==
    /\ pc = "push1"
    /\ count = 1
    /\ stageCalls = 2
    /\ Processed = 1
    /\ Observations(rec_duration) = 1
    /\ Gather["fs_etl_operations_total"][Label] = 1

====
